---- MODULE Spec2Model ----
(***************************************************************************)
(* Model of the YouTube -> Threads content pipeline (register-n8n).        *)
(*                                                                         *)
(*   src/main.py                      YouTubeThreadsBot (orchestrator)     *)
(*   src/src/database/db.py           Database (persistence store)         *)
(*   src/src/ai/moderator.py          Moderator (guardrails)               *)
(*   src/src/social/threads_client.py ThreadsClient (publish + retry)      *)
(*   src/src/ai/post_generator.py     PostGenerator (generate + retry)     *)
(*   src/src/ai/transcriber.py        Transcriber (transcript + retry)     *)
(*   src/src/youtube/detector.py      YouTubeDetector (feed reader)        *)
(*                                                                         *)
(* A text is represented by the statistics the guardrails and the          *)
(* pre-flight validation read from it (length, word count, unique words,   *)
(* alphabetic characters, spam-pattern matches, hashtags, emoji characters  *)
(* and the maximal runs of adjacent emoji characters).                     *)
(***************************************************************************)
EXTENDS Integers, Sequences, FiniteSets, TLC

VARIABLES
    feed,          \* RSS feed of the channel: Seq of [video_id, url, recent]
    videos,        \* table `videos`: Seq of rows, the row's id is its index
    posts,         \* table `posts`: Seq of rows, the row's id is its index
    threads,       \* posts created on the platform, per video id
    checkLog,      \* one entry per finished check_new_videos call
    mode,          \* command being executed: idle | single | pending
    queue,         \* process_pending_videos: the list read from the store
    qi,            \* process_pending_videos: loop index into queue
    pc,            \* position of process_video
    locals,        \* local variables of process_video
    trace,         \* collaborator calls made by the current process_video run
    outcome,       \* how the current run ended
    runs,          \* number of process_video runs started
    wrapper,       \* retry wrapper being executed (none when idle)
    max_retries,   \* its max_retries argument
    attempt,       \* its loop variable
    calls,         \* outcomes of the calls of the wrapped operation so far
    sleeps,        \* arguments of time.sleep so far
    last_error,    \* last_error / last_exception of the wrapper
    retry_result,  \* what the wrapper returned or raised
    created,       \* posts the platform created during the wrapper's calls
    http_log,      \* calls of ThreadsClient.publish_post: content, answer, result
    config,        \* Moderator.platform_limits['threads'] of the moderator
    checked,       \* last call of the moderator: operation and text
    moderation,    \* the ModerationResult it returned
    fixed,         \* last call of Moderator.auto_fix: post and returned string
    transcription, \* last call of Transcriber.transcribe: settings and outcome
    ingest,        \* concurrent check_new_videos runs: position of each
    db_call        \* last direct call of a store operation and how it ended

pvars == <<feed, videos, posts, threads, checkLog, mode, queue, qi, pc, locals,
           trace, outcome, runs>>
rvars == <<wrapper, max_retries, attempt, calls, sleeps, last_error, retry_result,
           created>>
fvars == <<http_log, config, checked, moderation, fixed, transcription, ingest,
           db_call>>
vars == <<feed, videos, posts, threads, checkLog, mode, queue, qi, pc, locals,
          trace, outcome, runs, wrapper, max_retries, attempt, calls, sleeps,
          last_error, retry_result, created, http_log, config, checked,
          moderation, fixed, transcription, ingest, db_call>>

(***************************************************************************)
(* Bounds of the model.                                                    *)
(***************************************************************************)
MaxVideos == 2
MaxRuns == 2
MaxChecks == 2
MaxPosts == 1
MaxRetriesArg == 3
MaxPublishCalls == 2
MaxSpamMatches == 2
MaxPostChars == 8
MaxProcs == 2

VideoIds == 1..MaxVideos

(***************************************************************************)
(* Texts.                                                                  *)
(***************************************************************************)
Text(len, words, uniq, alpha, spam, hashtags, emojis, emoji_runs) ==
    [len |-> len, words |-> words, uniq |-> uniq, alpha |-> alpha,
     spam |-> spam, hashtags |-> hashtags, emojis |-> emojis,
     emoji_runs |-> emoji_runs]

\* a transcript that passes check_transcript
GoodTranscript == Text(600, 100, 80, 480, 0, 0, 0, 0)
\* a transcript that is too short
ShortTranscript == Text(40, 8, 8, 30, 0, 0, 0, 0)
\* a post that passes check_post
GoodPost == Text(120, 20, 18, 90, 0, 2, 2, 2)
\* a post matching a spam pattern ("!!!")
SpamPost == Text(120, 20, 18, 90, 1, 2, 2, 2)
\* a post over the platform length limit
LongPost == Text(600, 100, 80, 480, 0, 2, 2, 2)

Transcripts == {GoodTranscript, ShortTranscript}
GeneratedPosts == {GoodPost, SpamPost, LongPost}

(***************************************************************************)
(* Moderator (src/src/ai/moderator.py), default configuration.             *)
(***************************************************************************)
min_length == 100
max_length == 50000
min_word_count == 20
max_word_count == 10000
max_repetition_ratio_pct == 50
min_alpha_ratio_pct == 50
repetition_min_chars == 50
repetition_min_words == 10
post_min_length == 20
post_max_length == 500
max_hashtags == 5
max_emojis == 10
warning_max_violations == 2

calculate_word_count(text) == text.words

\* 1 - unique/total > max_repetition_ratio, in hundredths
check_repetition(text) ==
    IF text.len = 0 \/ text.len < repetition_min_chars THEN FALSE
    ELSE IF text.words < repetition_min_words THEN FALSE
    ELSE 100 * (text.words - text.uniq) > max_repetition_ratio_pct * text.words

\* alpha_count / len(text) < min_alpha_ratio, in hundredths; 0.0 for the empty text
alpha_below_minimum(text) ==
    IF text.len = 0 THEN 0 < min_alpha_ratio_pct
    ELSE 100 * text.alpha < min_alpha_ratio_pct * text.len

\* spam is reported only for a text with a single match
check_spam_patterns_once(text) == text.spam = 1

\* re.search of some spam pattern finds a match
check_spam_patterns(text) == text.spam > 0

\* len(re.findall(r'#\w+', text))
count_hashtags(text) == text.hashtags

\* len(emoji_pattern.findall(text)), the pattern being "[...]+": one match
\* for every maximal run of adjacent emoji characters
count_emojis(text) == text.emoji_runs

\* the limits of the platform 'threads' in the default configuration
platform_limits ==
    [max_length |-> post_max_length, min_length |-> post_min_length,
     max_hashtags |-> max_hashtags, max_emojis |-> max_emojis]

\* the limit itself is already too many
excessive_hashtags_inclusive(hashtag_count, limit) == hashtag_count >= limit

\* hashtag_count > max_hashtags
excessive_hashtags(hashtag_count, limit) == hashtag_count > limit

\* emoji_count >= max_emojis
excessive_emojis(emoji_count, limit) == emoji_count >= limit

IfViolation(cond, type) == IF cond THEN <<type>> ELSE <<>>

\* WARNING for a single violation only
safety_level_of_strict(violations) ==
    IF Len(violations) = 0 THEN "SAFE"
    ELSE IF Len(violations) < warning_max_violations THEN "WARNING"
    ELSE "UNSAFE"

safety_level_of(violations) ==
    IF Len(violations) = 0 THEN "SAFE"
    ELSE IF Len(violations) <= warning_max_violations THEN "WARNING"
    ELSE "UNSAFE"

ModerationResult(violations) ==
    [is_safe |-> Len(violations) = 0,
     safety_level |-> safety_level_of(violations),
     violations |-> violations]

check_transcript(transcript) ==
    ModerationResult(
        IfViolation(transcript.len < min_length, "too_short")
        \o IfViolation(transcript.len > max_length, "too_long")
        \o IfViolation(calculate_word_count(transcript) < min_word_count, "too_short")
        \o IfViolation(check_repetition(transcript), "repetitive_content")
        \o IfViolation(alpha_below_minimum(transcript), "insufficient_alpha"))

\* check_post of a Moderator whose platform limits are limits
check_post_with(limits, post) ==
    ModerationResult(
        IfViolation(post.len < limits.min_length, "too_short")
        \o IfViolation(post.len > limits.max_length, "length_exceeded")
        \o IfViolation(check_spam_patterns(post), "spam_detected")
        \o IfViolation(excessive_hashtags(count_hashtags(post), limits.max_hashtags),
                       "excessive_hashtags")
        \o IfViolation(excessive_emojis(count_emojis(post), limits.max_emojis),
                       "excessive_emojis"))

check_post(post) == check_post_with(platform_limits, post)

(***************************************************************************)
(* Feed reader (src/src/youtube/detector.py).                              *)
(***************************************************************************)
WatchUrl(v) == [kind |-> "watch", id |-> v]
ShortUrl(v) == [kind |-> "youtu.be", id |-> v]
OtherUrl(v) == [kind |-> "other", id |-> v]

Candidate(v) == [video_id |-> v, url |-> WatchUrl(v), recent |-> TRUE]

\* videos published within the time window
filter_new_videos(entries) == SelectSeq(entries, LAMBDA e : e.recent)

FeedIds(entries) == {entries[i].video_id : i \in 1..Len(entries)}

(***************************************************************************)
(* Persistence store (src/src/database/db.py, models.py).                  *)
(***************************************************************************)
ProcessingStatus ==
    {"NEW", "TRANSCRIBED", "POSTS_GENERATED", "APPROVED", "PUBLISHED",
     "REJECTED", "FAILED"}
PostStatus == {"DRAFT", "APPROVED", "PUBLISHED", "FAILED", "REJECTED"}

\* index of the row with this YouTube video id, 0 when there is none
get_video_by_video_id(table, video_id) ==
    IF \E i \in 1..Len(table) : table[i].video_id = video_id
    THEN CHOOSE i \in 1..Len(table) : table[i].video_id = video_id
    ELSE 0

\* the unique index is missing: the commit of a second row succeeds
add_video_no_unique_index(table, video) ==
    [raised |-> FALSE,
     table |-> Append(table, [video_id |-> video.video_id, url |-> video.url,
                              processing_status |-> "NEW", transcript |-> <<>>])]

\* the unique index on videos.video_id makes the commit raise IntegrityError
add_video(table, video) ==
    IF get_video_by_video_id(table, video.video_id) # 0
    THEN [raised |-> TRUE, table |-> table]
    ELSE [raised |-> FALSE,
          table |-> Append(table, [video_id |-> video.video_id,
                                   url |-> video.url,
                                   processing_status |-> "NEW",
                                   transcript |-> <<>>])]

update_video_status(table, id, status) ==
    IF id \in 1..Len(table)
    THEN [table EXCEPT ![id].processing_status = status]
    ELSE table

update_video_transcript(table, id, transcript) ==
    IF id \in 1..Len(table)
    THEN [table EXCEPT ![id].transcript = <<transcript>>,
                       ![id].processing_status = "TRANSCRIBED"]
    ELSE table

get_videos_by_status(table, status) ==
    SelectSeq(table, LAMBDA row : row.processing_status = status)

add_post(table, video_id, content) ==
    Append(table, [video_id |-> video_id, platform |-> "threads",
                   content |-> content, status |-> "DRAFT",
                   published_url |-> <<>>])

mark_post_as_published(table, post_id, published_url) ==
    IF post_id \in 1..Len(table)
    THEN [table EXCEPT ![post_id].status = "PUBLISHED",
                       ![post_id].published_url = <<published_url>>]
    ELSE table

(***************************************************************************)
(* YouTubeThreadsBot.check_new_videos (src/main.py).                       *)
(***************************************************************************)
\* upsert instead of skip: an already stored video is reset to a fresh row
check_one_video_upsert(table, video) ==
    LET existing == get_video_by_video_id(table, video.video_id) IN
    IF existing # 0
    THEN [raised |-> FALSE,
          table |-> [table EXCEPT ![existing].processing_status = "NEW",
                                  ![existing].transcript = <<>>]]
    ELSE add_video(table, video)

\* body of the loop over the candidates: skip a stored video, add a new one
check_one_video(table, video) ==
    LET existing == get_video_by_video_id(table, video.video_id) IN
    IF existing # 0
    THEN [raised |-> FALSE, table |-> table]
    ELSE add_video(table, video)

RECURSIVE check_videos_loop(_, _)
\* the loop; an exception of add_video leaves the loop (outer except)
check_videos_loop(table, candidates) ==
    IF candidates = <<>>
    THEN [raised |-> FALSE, table |-> table]
    ELSE LET r == check_one_video(table, Head(candidates)) IN
         IF r.raised THEN r
         ELSE check_videos_loop(r.table, Tail(candidates))

(***************************************************************************)
(* Collaborators called by process_video.                                  *)
(***************************************************************************)
\* Transcriber.extract_video_id: <<id>>, or <<>> when it raises ValueError
extract_video_id(url) ==
    IF url.kind = "watch" THEN <<url.id>>
    ELSE IF url.kind = "youtu.be" THEN <<url.id>>
    ELSE <<>>

Returned(value) == [raised |-> FALSE, value |-> <<value>>, error |-> "none"]
Raised(error) == [raised |-> TRUE, value |-> <<>>, error |-> error]

\* what Transcriber.transcribe can do: return a transcript or raise
TranscribeOutcomes ==
    {Returned(t) : t \in Transcripts}
    \cup {Raised(e) : e \in {"NoTranscriptFound", "ConnectionError"}}

\* what PostGenerator.generate_post can do for a non-blank transcript
GenerateOutcomes ==
    {Returned(p) : p \in GeneratedPosts}
    \cup {Raised(e) : e \in {"RateLimitError", "AuthenticationError", "APIError"}}

\* PostGenerator.generate_post: a blank transcript is a ValueError
generate_post(transcript, api) ==
    IF transcript.words = 0 THEN Raised("ValueError") ELSE api

\* answers of requests.post: an HTTP status, or a transport failure
HttpOutcomes ==
    {"200", "201", "401", "404", "429", "500", "Timeout", "ConnectionError"}

MAX_POST_LENGTH == 500

\* ThreadsClient.validate_post_content: the list of errors
validate_post_content(content) ==
    IfViolation(content.len = 0 \/ content.words = 0, "Content cannot be empty")
    \o IfViolation(content.len > MAX_POST_LENGTH, "Content exceeds maximum length")

PublishResult(success) == [raised |-> FALSE, value |-> <<success>>, error |-> "none"]

\* the request is sent before the content is validated
publish_post_validate_late(content, http) ==
    [requests |-> 1,
     ret |-> IF validate_post_content(content) # <<>> THEN Raised("ValueError")
             ELSE IF http = "200" THEN PublishResult(TRUE)
             ELSE PublishResult(FALSE)]

\* ThreadsClient.publish_post: requests is the number of HTTP requests made
publish_post(content, http) ==
    IF validate_post_content(content) # <<>>
    THEN [requests |-> 0, ret |-> Raised("ValueError")]
    ELSE [requests |-> 1,
          ret |-> IF http = "200" THEN PublishResult(TRUE)
                  ELSE IF http = "401" THEN Raised("Authentication failed")
                  ELSE IF http = "429" THEN Raised("Rate limit exceeded")
                  ELSE IF http = "Timeout" THEN Raised("Request timeout")
                  ELSE IF http = "ConnectionError" THEN Raised("Network error")
                  ELSE PublishResult(FALSE)]

\* the platform creates a post when it answers 200
PlatformCreatesPost(r, http) == r.requests = 1 /\ http = "200"

(***************************************************************************)
(* YouTubeThreadsBot.process_video (src/main.py), one step per stage.      *)
(***************************************************************************)
NoLocals ==
    [video_url |-> OtherUrl(0), video_id |-> 0, transcript_result |-> <<>>,
     moderation_result |-> <<>>, post |-> <<>>, post_moderation |-> <<>>,
     result |-> <<>>, error |-> "none"]

Call(op, text, ok) == [op |-> op, text |-> text, ok |-> ok]

\* the call process_video(video_url)
BeginRun(video_url) ==
    /\ pc' = "extract_video_id"
    /\ locals' = [NoLocals EXCEPT !.video_url = video_url]
    /\ trace' = <<>>
    /\ outcome' = "running"
    /\ runs' = runs + 1

\* the except clause of process_video: log and print the error, return
CatchException(error) ==
    /\ pc' = "returned"
    /\ outcome' = "exception"
    /\ locals' = [locals EXCEPT !.error = error]

Running == mode # "idle" /\ outcome = "running"

ExtractVideoId ==
    /\ Running /\ pc = "extract_video_id"
    /\ LET id == extract_video_id(locals.video_url) IN
       IF id = <<>>
       THEN CatchException("ValueError")
       ELSE /\ pc' = "transcribe"
            /\ locals' = [locals EXCEPT !.video_id = id[1]]
            /\ outcome' = outcome
    /\ UNCHANGED <<feed, videos, posts, threads, checkLog, mode, queue, qi, trace,
                   runs, rvars, fvars>>

Transcribe ==
    /\ Running /\ pc = "transcribe"
    /\ \E r \in TranscribeOutcomes :
         /\ trace' = Append(trace, Call("transcribe", r.value, ~r.raised))
         /\ IF r.raised
            THEN CatchException(r.error)
            ELSE /\ pc' = "check_transcript"
                 /\ locals' = [locals EXCEPT !.transcript_result = r.value]
                 /\ outcome' = outcome
    /\ UNCHANGED <<feed, videos, posts, threads, checkLog, mode, queue, qi, runs,
                   rvars, fvars>>

\* an unsafe transcript does not stop the run
ModerateTranscript_noStop ==
    /\ Running /\ pc = "check_transcript"
    /\ LET m == check_transcript(locals.transcript_result[1]) IN
       /\ trace' = Append(trace, Call("check_transcript", locals.transcript_result,
                                      m.is_safe))
       /\ locals' = [locals EXCEPT !.moderation_result = <<m>>]
       /\ pc' = "generate_post"
       /\ outcome' = outcome
    /\ UNCHANGED <<feed, videos, posts, threads, checkLog, mode, queue, qi, runs,
                   rvars, fvars>>

ModerateTranscript ==
    /\ Running /\ pc = "check_transcript"
    /\ LET m == check_transcript(locals.transcript_result[1]) IN
       /\ trace' = Append(trace, Call("check_transcript", locals.transcript_result,
                                      m.is_safe))
       /\ locals' = [locals EXCEPT !.moderation_result = <<m>>]
       /\ IF ~m.is_safe
          THEN pc' = "returned" /\ outcome' = "transcript_rejected"
          ELSE pc' = "generate_post" /\ outcome' = outcome
    /\ UNCHANGED <<feed, videos, posts, threads, checkLog, mode, queue, qi, runs,
                   rvars, fvars>>

GeneratePost ==
    /\ Running /\ pc = "generate_post"
    /\ \E api \in GenerateOutcomes :
         LET r == generate_post(locals.transcript_result[1], api) IN
         /\ trace' = Append(trace, Call("generate_post", locals.transcript_result,
                                        ~r.raised))
         /\ IF r.raised
            THEN CatchException(r.error)
            ELSE /\ pc' = "check_post"
                 /\ locals' = [locals EXCEPT !.post = r.value]
                 /\ outcome' = outcome
    /\ UNCHANGED <<feed, videos, posts, threads, checkLog, mode, queue, qi, runs,
                   rvars, fvars>>

\* an unsafe post is only reported; the run goes on to the confirmation
ModeratePost ==
    /\ Running /\ pc = "check_post"
    /\ LET m == check_post(locals.post[1]) IN
       /\ trace' = Append(trace, Call("check_post", locals.post, m.is_safe))
       /\ locals' = [locals EXCEPT !.post_moderation = <<m>>]
       /\ pc' = "confirm_publish"
       /\ outcome' = outcome
    /\ UNCHANGED <<feed, videos, posts, threads, checkLog, mode, queue, qi, runs,
                   rvars, fvars>>

\* the answer is ignored: publish whatever the operator typed
ConfirmPublish_ignoreAnswer ==
    /\ Running /\ pc = "confirm_publish"
    /\ \E answer \in BOOLEAN :
         /\ trace' = Append(trace, Call("confirm_publish", locals.post, answer))
         /\ pc' = "publish_post" /\ outcome' = outcome
    /\ UNCHANGED <<feed, videos, posts, threads, checkLog, mode, queue, qi, locals,
                   runs, rvars, fvars>>

\* _confirm_publish: answer is TRUE for y / yes
ConfirmPublish ==
    /\ Running /\ pc = "confirm_publish"
    /\ \E answer \in BOOLEAN :
         /\ trace' = Append(trace, Call("confirm_publish", locals.post, answer))
         /\ IF answer
            THEN pc' = "publish_post" /\ outcome' = outcome
            ELSE pc' = "returned" /\ outcome' = "cancelled"
    /\ UNCHANGED <<feed, videos, posts, threads, checkLog, mode, queue, qi, locals,
                   runs, rvars, fvars>>

\* the post is repaired (truncated to the platform limit) before it is sent
PublishedText_autoFix(post) ==
    IF post.len > post_max_length THEN [post EXCEPT !.len = post_max_length]
    ELSE post

\* the text that process_video hands to publish_post: post.content
PublishedText(post) == post

Publish ==
    /\ Running /\ pc = "publish_post"
    /\ \E http \in HttpOutcomes :
         LET content == PublishedText(locals.post[1])
             r == publish_post(content, http) IN
         /\ trace' = Append(trace, Call("publish_post", <<content>>, ~r.ret.raised))
         /\ threads' = IF PlatformCreatesPost(r, http)
                       THEN [threads EXCEPT ![locals.video_id] = @ + 1]
                       ELSE threads
         /\ IF r.ret.raised
            THEN CatchException(r.ret.error)
            ELSE /\ pc' = "returned"
                 /\ locals' = [locals EXCEPT !.result = r.ret.value]
                 /\ outcome' = IF r.ret.value[1] THEN "published" ELSE "publish_failed"
    /\ UNCHANGED <<feed, videos, posts, checkLog, mode, queue, qi, runs, rvars, fvars>>

(***************************************************************************)
(* Commands of main.py and the operations of the store.                    *)
(***************************************************************************)
Idle == mode = "idle"

\* the process ends: nothing of the run is kept but the store and the platform
EndCommand ==
    /\ mode' = "idle"
    /\ queue' = <<>>
    /\ qi' = 0
    /\ pc' = "idle"
    /\ locals' = NoLocals
    /\ trace' = <<>>
    /\ outcome' = "none"

\* the channel publishes a video: a new entry at the head of the feed
FeedPublish ==
    /\ Idle
    /\ \E v \in VideoIds \ FeedIds(feed) : feed' = <<Candidate(v)>> \o feed
    /\ UNCHANGED <<videos, posts, threads, checkLog, mode, queue, qi, pc, locals,
                   trace, outcome, runs, rvars, fvars>>

\* time passes: the oldest entry of the window leaves it
FeedAge ==
    /\ Idle
    /\ \E i \in 1..Len(feed) :
         /\ feed[i].recent
         /\ \A j \in (i + 1)..Len(feed) : ~feed[j].recent
         /\ feed' = [feed EXCEPT ![i].recent = FALSE]
    /\ UNCHANGED <<videos, posts, threads, checkLog, mode, queue, qi, pc, locals,
                   trace, outcome, runs, rvars, fvars>>

CheckEntry(fetched, seen, added) ==
    [fetched |-> fetched, seen |-> seen, added |-> added]

SeenIds(entries) == [i \in 1..Len(entries) |-> entries[i].video_id]

\* check_new_videos; fetched is FALSE when fetching or parsing the feed raises
CheckNewVideos ==
    /\ Idle
    /\ Len(checkLog) < MaxChecks
    /\ \E fetched \in BOOLEAN :
         IF ~fetched
         THEN /\ videos' = videos
              /\ checkLog' = Append(checkLog, CheckEntry(FALSE, <<>>, 0))
         ELSE LET r == check_videos_loop(videos, filter_new_videos(feed)) IN
              /\ videos' = r.table
              /\ checkLog' = Append(checkLog,
                                    CheckEntry(TRUE, SeenIds(feed),
                                               Len(r.table) - Len(videos)))
    /\ UNCHANGED <<feed, posts, threads, mode, queue, qi, pc, locals, trace, outcome,
                   runs, rvars, fvars>>

\* process_pending_videos up to the first call of process_video
ProcessPendingVideos ==
    /\ Idle
    /\ LET pending == get_videos_by_status(videos, "NEW") IN
       IF pending = <<>>
       THEN UNCHANGED <<mode, queue, qi, pc, locals, trace, outcome, runs>>
       ELSE /\ runs < MaxRuns
            /\ mode' = "pending"
            /\ queue' = pending
            /\ qi' = 1
            /\ BeginRun(pending[1].url)
    /\ UNCHANGED <<feed, videos, posts, threads, checkLog, rvars, fvars>>

\* the loop is left when the run of a video ended with an exception
ShouldContinue_stop_on_error ==
    /\ mode = "pending" /\ pc = "returned"
    /\ \E answer \in BOOLEAN :
         IF answer /\ qi < Len(queue) /\ outcome # "exception"
         THEN /\ runs < MaxRuns
              /\ qi' = qi + 1
              /\ BeginRun(queue[qi + 1].url)
              /\ UNCHANGED <<mode, queue>>
         ELSE /\ EndCommand
              /\ runs' = runs
    /\ UNCHANGED <<feed, videos, posts, threads, checkLog, rvars, fvars>>

\* _should_continue after process_video returned: next video, or leave the loop
ShouldContinue ==
    /\ mode = "pending" /\ pc = "returned"
    /\ \E answer \in BOOLEAN :
         IF answer /\ qi < Len(queue)
         THEN /\ runs < MaxRuns
              /\ qi' = qi + 1
              /\ BeginRun(queue[qi + 1].url)
              /\ UNCHANGED <<mode, queue>>
         ELSE /\ EndCommand
              /\ runs' = runs
    /\ UNCHANGED <<feed, videos, posts, threads, checkLog, rvars, fvars>>

CommandUrls ==
    {WatchUrl(v) : v \in VideoIds} \cup {ShortUrl(v) : v \in VideoIds}
    \cup {OtherUrl(0)}

\* main.py --video-url URL
ProcessVideoCommand ==
    /\ Idle
    /\ runs < MaxRuns
    /\ \E video_url \in CommandUrls :
         /\ mode' = "single"
         /\ BeginRun(video_url)
    /\ UNCHANGED <<feed, videos, posts, threads, checkLog, queue, qi, rvars, fvars>>

\* process_video returned to main(), the process exits
FinishCommand ==
    /\ mode = "single" /\ pc = "returned"
    /\ EndCommand
    /\ UNCHANGED <<feed, videos, posts, threads, checkLog, runs, rvars, fvars>>

\* the process dies between two stages
Crash ==
    /\ mode # "idle" /\ pc # "returned"
    /\ EndCommand
    /\ UNCHANGED <<feed, videos, posts, threads, checkLog, runs, rvars, fvars>>

AddPost ==
    /\ Idle
    /\ Len(posts) < MaxPosts
    /\ \E id \in 1..Len(videos) : posts' = add_post(posts, id, GoodPost)
    /\ UNCHANGED <<feed, videos, threads, checkLog, mode, queue, qi, pc, locals,
                   trace, outcome, runs, rvars, fvars>>

PublishedUrls == {"url1", "url2"}

MarkPostAsPublished ==
    /\ Idle
    /\ \E post_id \in 1..MaxPosts, published_url \in PublishedUrls :
         posts' = mark_post_as_published(posts, post_id, published_url)
    /\ UNCHANGED <<feed, videos, threads, checkLog, mode, queue, qi, pc, locals,
                   trace, outcome, runs, rvars, fvars>>

UpdateVideoStatus ==
    /\ Idle
    /\ \E id \in 1..MaxVideos, status \in ProcessingStatus :
         videos' = update_video_status(videos, id, status)
    /\ UNCHANGED <<feed, posts, threads, checkLog, mode, queue, qi, pc, locals,
                   trace, outcome, runs, rvars, fvars>>

UpdateVideoTranscript ==
    /\ Idle
    /\ \E id \in 1..MaxVideos :
         videos' = update_video_transcript(videos, id, GoodTranscript)
    /\ UNCHANGED <<feed, posts, threads, checkLog, mode, queue, qi, pc, locals,
                   trace, outcome, runs, rvars, fvars>>

(***************************************************************************)
(* Retry wrappers: ThreadsClient.publish_post_with_retry,                  *)
(* PostGenerator.generate_post_with_retry,                                 *)
(* Transcriber.get_youtube_transcript_with_retry.                          *)
(* One step per iteration of the for loop: the call of the wrapped         *)
(* operation and the handling of what it returned or raised.               *)
(***************************************************************************)
Wrappers ==
    {"publish_post_with_retry", "generate_post_with_retry",
     "get_youtube_transcript_with_retry"}

\* what one call of publish_post gives: ok, a failure result, or an exception
PublishCallOutcome(content, http) ==
    LET ret == publish_post(content, http).ret IN
    IF ret.raised THEN ret.error
    ELSE IF ret.value[1] THEN "ok" ELSE "API error"

PublishCallOutcomes ==
    {PublishCallOutcome(c, h) : c \in {GoodPost, LongPost}, h \in HttpOutcomes}

\* what one call of generate_post gives (exception classes of the API client)
GenerateCallOutcomes ==
    {"ok", "RateLimitError", "AuthenticationError", "APIError", "ValueError"}

\* what one call of get_youtube_transcript gives: a transcript, the builtin
\* ConnectionError, a not-available error of the transcript API, or a network
\* timeout (any other exception)
TranscriptCallOutcomes == {"ok", "ConnectionError", "NoTranscriptFound", "Timeout"}

CallOutcomes(w) ==
    IF w = "publish_post_with_retry" THEN PublishCallOutcomes
    ELSE IF w = "generate_post_with_retry" THEN GenerateCallOutcomes
    ELSE TranscriptCallOutcomes

\* exceptions publish_post raises as ThreadsAPIError
ThreadsAPIErrors ==
    {"Authentication failed", "Rate limit exceeded", "Request timeout",
     "Network error"}

NoResult == [kind |-> "none", value |-> "none"]
Return(value) == [kind |-> "return", value |-> value]
Raise(error) == [kind |-> "raise", value |-> error]

\* the iteration goes on to the next one after sleeping (or not)
Continue(error, sleep) ==
    [result |-> NoResult, last_error |-> error, sleep |-> sleep]
\* the iteration leaves the wrapper
Leave(result, error) ==
    [result |-> result, last_error |-> error, sleep |-> <<>>]

\* the last failed attempt gives a synthesized result instead of its error
publish_iteration_synthesized(o, n, max, last) ==
    IF o \in {"ok", "API error"} THEN Leave(Return(o), last)
    ELSE IF o \notin ThreadsAPIErrors THEN Leave(Raise(o), last)
    ELSE IF o \in {"Authentication failed", "Rate limit exceeded"}
         THEN Leave(Raise(o), o)
    ELSE IF n < max - 1 THEN Continue(o, <<2 ^ n>>)
    ELSE Leave(Return("All retries failed"), o)

\* one iteration of publish_post_with_retry, o the outcome of publish_post
publish_iteration(o, n, max, last) ==
    IF o \in {"ok", "API error"} THEN Leave(Return(o), last)
    ELSE IF o \notin ThreadsAPIErrors THEN Leave(Raise(o), last)
    ELSE IF o \in {"Authentication failed", "Rate limit exceeded"}
         THEN Leave(Raise(o), o)
    ELSE IF n < max - 1 THEN Continue(o, <<2 ^ n>>)
    ELSE Leave(Raise(o), o)

\* one iteration of generate_post_with_retry
generate_iteration(o, n, max, last) ==
    IF o = "ok" THEN Leave(Return(o), last)
    ELSE IF o = "RateLimitError" THEN Leave(Raise(o), last)
    ELSE IF n < max - 1 THEN Continue(o, <<2 ^ n>>)
    ELSE Leave(Raise(o), o)

\* one iteration of get_youtube_transcript_with_retry
transcript_iteration(o, n, max, last) ==
    IF o = "ok" THEN Leave(Return(o), last)
    ELSE IF o # "ConnectionError" THEN Leave(Raise(o), last)
    ELSE IF n < max - 1 THEN Continue(o, <<>>)
    ELSE Leave(Raise(o), o)

iteration(w, o, n, max, last) ==
    IF w = "publish_post_with_retry" THEN publish_iteration(o, n, max, last)
    ELSE IF w = "generate_post_with_retry" THEN generate_iteration(o, n, max, last)
    ELSE transcript_iteration(o, n, max, last)

\* the code after the loop, reached when the loop body never ran
after_loop(w, last) ==
    IF last # "none" THEN Raise(last)
    ELSE IF w = "publish_post_with_retry" THEN Return("All retries failed")
    ELSE IF w = "generate_post_with_retry" THEN Return("None")
    ELSE Raise("Transcription failed after retries")

RetryCall ==
    /\ wrapper = "none"
    /\ \E w \in Wrappers, max \in 0..MaxRetriesArg :
         /\ wrapper' = w
         /\ max_retries' = max
    /\ attempt' = 0
    /\ calls' = <<>>
    /\ sleeps' = <<>>
    /\ last_error' = "none"
    /\ retry_result' = NoResult
    /\ created' = 0
    /\ UNCHANGED <<pvars, fvars>>

\* posts the platform can have created when a call of the wrapped operation
\* ended with o: one for a 200 answer; for a request that timed out at the
\* client the platform may have accepted it or not
PlatformCreated(w, o) ==
    IF w # "publish_post_with_retry" THEN {0}
    ELSE IF o = "ok" THEN {1}
    ELSE IF o = "Request timeout" THEN {0, 1}
    ELSE {0}

RetryIteration ==
    /\ wrapper # "none" /\ retry_result = NoResult
    /\ attempt < max_retries
    /\ \E o \in CallOutcomes(wrapper) :
         LET it == iteration(wrapper, o, attempt, max_retries, last_error) IN
         /\ calls' = Append(calls, o)
         /\ \E n \in PlatformCreated(wrapper, o) : created' = created + n
         /\ sleeps' = sleeps \o it.sleep
         /\ last_error' = it.last_error
         /\ retry_result' = it.result
         /\ attempt' = IF it.result = NoResult THEN attempt + 1 ELSE attempt
    /\ UNCHANGED <<wrapper, max_retries, pvars, fvars>>

RetryAfterLoop ==
    /\ wrapper # "none" /\ retry_result = NoResult
    /\ attempt >= max_retries
    /\ retry_result' = after_loop(wrapper, last_error)
    /\ UNCHANGED <<wrapper, max_retries, attempt, calls, sleeps, last_error, created,
                   pvars, fvars>>

\* the wrapper has returned or raised; the caller may call again
RetryReturn ==
    /\ wrapper # "none" /\ retry_result # NoResult
    /\ wrapper' = "none"
    /\ max_retries' = 0
    /\ attempt' = 0
    /\ calls' = <<>>
    /\ sleeps' = <<>>
    /\ last_error' = "none"
    /\ retry_result' = NoResult
    /\ created' = 0
    /\ UNCHANGED <<pvars, fvars>>

(***************************************************************************)
(* ThreadsClient.publish_post called directly, with any content.           *)
(***************************************************************************)
\* the empty string
EmptyPost == Text(0, 0, 0, 0, 0, 0, 0, 0)
\* whitespace only
BlankPost == Text(3, 0, 0, 0, 0, 0, 0, 0)
\* a post of exactly MAX_POST_LENGTH characters
LimitPost == Text(MAX_POST_LENGTH, 80, 70, 400, 0, 2, 2, 2)

Contents == {GoodPost, LongPost, EmptyPost, BlankPost, LimitPost}

PublishPostCall ==
    /\ Len(http_log) < MaxPublishCalls
    /\ \E content \in Contents, http \in HttpOutcomes :
         LET r == publish_post(content, http) IN
         http_log' = Append(http_log, [content |-> content, http |-> http,
                                       requests |-> r.requests, ret |-> r.ret])
    /\ UNCHANGED <<config, checked, moderation, fixed, transcription, ingest,
                   db_call, pvars, rvars>>

(***************************************************************************)
(* Moderator.check_transcript and Moderator.check_post called directly,    *)
(* for moderators with different platform limits.                          *)
(***************************************************************************)
EmojiLimits == {1, 2, 3, 10}
HashtagLimits == {1, 5}

\* platform limits a configuration file can give
ConfiguredLimits ==
    {[platform_limits EXCEPT !.max_emojis = e, !.max_hashtags = h] :
        e \in EmojiLimits, h \in HashtagLimits}

\* a transcript of more than max_word_count words, within max_length
WordyTranscript == Text(30000, max_word_count + 1, 6000, 24000, 0, 0, 0, 0)

\* transcripts around the limits of transcript_validation
TranscriptInputs ==
    {t \in {Text(l, w, u, a, 0, 0, 0, 0) :
               l \in {0, 40, 99, 100, 600, 50001}, w \in {0, 8, 19, 20, 100},
               u \in {0, 4, 8, 20, 40, 100}, a \in {0, 30, 49, 50, 480}} :
        /\ t.words <= t.len /\ t.uniq <= t.words /\ t.alpha <= t.len
        /\ (t.words > 0 => t.uniq > 0)}
    \cup {WordyTranscript}

\* emoji characters and the runs they form: all apart, or some adjacent
EmojiShapes ==
    {<<0, 0>>, <<1, 1>>, <<2, 1>>, <<2, 2>>, <<3, 1>>, <<3, 2>>, <<3, 3>>,
     <<9, 9>>, <<10, 1>>, <<10, 9>>, <<10, 10>>, <<11, 11>>}

\* min_length characters of alternating whitespace (" \t \t ..."): no word,
\* and no character repeated eleven times in a row
WhitespacePost == Text(post_min_length, 0, 0, 0, 0, 0, 0, 0)

\* posts around the platform limits
PostInputs ==
    {p \in {Text(l, l \div 6, l \div 6, (3 * l) \div 4, s, h, e[1], e[2]) :
               l \in {10, 120, 501}, s \in 0..MaxSpamMatches,
               h \in {0, 1, 2, 5, 6}, e \in EmojiShapes} :
        2 * p.hashtags + p.emojis <= p.len}
    \cup {WhitespacePost}

NoCheck == [op |-> "none", text |-> <<>>]

\* Moderator(config_path): the platform limits are read from the configuration
NewModerator ==
    /\ \E l \in ConfiguredLimits : config' = l
    /\ checked' = NoCheck
    /\ moderation' = <<>>
    /\ UNCHANGED <<http_log, fixed, transcription, ingest, db_call, pvars, rvars>>

CheckTranscript ==
    /\ \E t \in TranscriptInputs :
         /\ checked' = [op |-> "check_transcript", text |-> <<t>>]
         /\ moderation' = <<check_transcript(t)>>
    /\ UNCHANGED <<http_log, config, fixed, transcription, ingest, db_call, pvars,
                   rvars>>

CheckPost ==
    /\ \E p \in PostInputs :
         /\ checked' = [op |-> "check_post", text |-> <<p>>]
         /\ moderation' = <<check_post_with(config, p)>>
    /\ UNCHANGED <<http_log, config, fixed, transcription, ingest, db_call, pvars,
                   rvars>>

(***************************************************************************)
(* Moderator.auto_fix, on posts written out character by character, for    *)
(* moderators whose max_length is a few characters.                        *)
(***************************************************************************)
Chars == {"a", " "}

PostStrings == UNION {[1..n -> Chars] : n \in 0..MaxPostChars}

\* re.sub(r' +', ' ', text)
RECURSIVE collapse_spaces(_)
collapse_spaces(text) ==
    IF Len(text) < 2 THEN text
    ELSE IF text[1] = " " /\ text[2] = " " THEN collapse_spaces(Tail(text))
    ELSE <<text[1]>> \o collapse_spaces(Tail(text))

RECURSIVE lstrip(_)
lstrip(text) ==
    IF text # <<>> /\ text[1] = " " THEN lstrip(Tail(text)) ELSE text

RECURSIVE rstrip(_)
rstrip(text) ==
    IF text # <<>> /\ text[Len(text)] = " "
    THEN rstrip(SubSeq(text, 1, Len(text) - 1))
    ELSE text

\* text.strip()
strip(text) == rstrip(lstrip(text))

auto_fix_whitespace(text) == strip(collapse_spaces(text))

Ellipsis == <<".", ".", ".">>

\* the cut is made at max_len: the dots come on top of the limit
truncate_late(post, max_len) == SubSeq(post, 1, max_len) \o Ellipsis

\* post[:max_len - 3] + "..." for a post over the limit (max_len >= 3)
truncate(post, max_len) == SubSeq(post, 1, max_len - 3) \o Ellipsis

auto_fix(limits, post) ==
    auto_fix_whitespace(IF Len(post) > limits.max_length
                        THEN truncate(post, limits.max_length)
                        ELSE post)

\* configurations with a short max_length
ShortLimits == {[platform_limits EXCEPT !.max_length = n] : n \in {5, 6}}

NoFix == [done |-> FALSE, post |-> <<>>, result |-> <<>>]

\* Moderator(config_path) with a short max_length
NewModeratorShortLimit ==
    /\ \E l \in ShortLimits : config' = l
    /\ checked' = NoCheck
    /\ moderation' = <<>>
    /\ fixed' = NoFix
    /\ UNCHANGED <<http_log, transcription, ingest, db_call, pvars, rvars>>

AutoFix ==
    /\ \E post \in PostStrings :
         fixed' = [done |-> TRUE, post |-> post, result |-> auto_fix(config, post)]
    /\ UNCHANGED <<http_log, config, checked, moderation, transcription, ingest,
                   db_call, pvars, rvars>>

(***************************************************************************)
(* Transcriber.transcribe called directly.                                 *)
(***************************************************************************)
\* errors of the transcript API that mean "no captions for this video"
NotAvailableErrors == {"TranscriptsDisabled", "NoTranscriptFound", "VideoUnavailable"}

\* what get_youtube_transcript can do: return the captions or raise
CaptionOutcomes ==
    {Returned(t) : t \in TranscriptInputs}
    \cup {Raised(e) : e \in NotAvailableErrors \cup {"ConnectionError", "Timeout"}}

\* Transcriber.transcribe_with_whisper: a placeholder that always raises
transcribe_with_whisper == Raised("NotImplementedError")

TranscribeResult(captions_calls, whisper_calls, ret) ==
    [captions_calls |-> captions_calls, whisper_calls |-> whisper_calls, ret |-> ret]

\* Transcriber.transcribe, captions being what get_youtube_transcript does
transcribe(use_youtube_captions, enable_whisper_fallback, captions) ==
    IF ~use_youtube_captions THEN TranscribeResult(0, 1, transcribe_with_whisper)
    ELSE IF ~captions.raised THEN TranscribeResult(1, 0, captions)
    ELSE IF captions.error \notin NotAvailableErrors
    THEN TranscribeResult(1, 0, captions)
    ELSE IF enable_whisper_fallback
    THEN TranscribeResult(1, 1, transcribe_with_whisper)
    ELSE TranscribeResult(1, 0, captions)

\* a Transcriber with the default settings, transcribe not called yet
NoTranscription ==
    [done |-> FALSE, use_youtube_captions |-> TRUE,
     enable_whisper_fallback |-> FALSE, captions |-> Raised("none"),
     result |-> TranscribeResult(0, 0, Raised("none"))]

\* Transcriber(openai_api_key, use_youtube_captions, enable_whisper_fallback)
NewTranscriber ==
    /\ \E use \in BOOLEAN, enable \in BOOLEAN :
         transcription' = [NoTranscription EXCEPT !.use_youtube_captions = use,
                                                  !.enable_whisper_fallback = enable]
    /\ UNCHANGED <<http_log, config, checked, moderation, fixed, ingest, db_call,
                   pvars, rvars>>

TranscribeCall ==
    /\ \E captions \in CaptionOutcomes :
         transcription' =
            [transcription EXCEPT
               !.done = TRUE,
               !.captions = captions,
               !.result = transcribe(transcription.use_youtube_captions,
                                     transcription.enable_whisper_fallback, captions)]
    /\ UNCHANGED <<http_log, config, checked, moderation, fixed, ingest, db_call,
                   pvars, rvars>>

(***************************************************************************)
(* check_new_videos run by several processes on the same store: one step   *)
(* per access to the feed or the store.                                    *)
(***************************************************************************)
Procs == 1..MaxProcs

NotStarted == [pc |-> "idle", i |-> 0, found |-> <<>>]

\* the loop goes on to the next video, or the run ends
NextVideo(run) ==
    IF run.i < Len(run.found)
    THEN [run EXCEPT !.pc = "check", !.i = run.i + 1]
    ELSE [run EXCEPT !.pc = "done"]

\* videos = self.youtube.check_for_new_videos(...); raising ends the run
IngestFetch(p) ==
    /\ ingest[p].pc = "idle"
    /\ \E fetched \in BOOLEAN :
         LET found == filter_new_videos(feed) IN
         ingest' = [ingest EXCEPT ![p] =
                      IF ~fetched THEN [pc |-> "failed", i |-> 0, found |-> <<>>]
                      ELSE IF found = <<>> THEN [pc |-> "done", i |-> 0, found |-> <<>>]
                      ELSE [pc |-> "check", i |-> 1, found |-> found]]
    /\ UNCHANGED <<http_log, config, checked, moderation, fixed, transcription,
                   db_call, pvars, rvars>>

\* existing = self.db.get_video_by_video_id(video.video_id)
IngestCheck(p) ==
    /\ ingest[p].pc = "check"
    /\ LET run == ingest[p]
           existing == get_video_by_video_id(videos, run.found[run.i].video_id) IN
       ingest' = [ingest EXCEPT ![p] =
                    IF existing # 0 THEN NextVideo(run) ELSE [run EXCEPT !.pc = "add"]]
    /\ UNCHANGED <<http_log, config, checked, moderation, fixed, transcription,
                   db_call, pvars, rvars>>

\* self.db.add_video(...); an exception ends the run in the except clause
IngestAdd(p) ==
    /\ ingest[p].pc = "add"
    /\ LET run == ingest[p]
           r == add_video(videos, run.found[run.i]) IN
       /\ videos' = r.table
       /\ ingest' = [ingest EXCEPT ![p] =
                       IF r.raised THEN [run EXCEPT !.pc = "failed"]
                       ELSE NextVideo(run)]
    /\ UNCHANGED <<feed, posts, threads, checkLog, mode, queue, qi, pc, locals,
                   trace, outcome, runs, http_log, config, checked, moderation,
                   fixed, transcription, db_call, rvars>>

(***************************************************************************)
(* Database.add_video, Database.add_post and                               *)
(* Database.mark_post_as_published called directly, each call recorded     *)
(* with the store it found and whether it repeats the call before it.      *)
(***************************************************************************)
DbCall(op, video_id, post_id, url, raised, repeat) ==
    [op |-> op, video_id |-> video_id, post_id |-> post_id, url |-> url,
     raised |-> raised, repeat |-> repeat,
     videos_before |-> videos, posts_before |-> posts]

NoDbCall ==
    [op |-> "none", video_id |-> 0, post_id |-> 0, url |-> "none",
     raised |-> FALSE, repeat |-> FALSE,
     videos_before |-> <<>>, posts_before |-> <<>>]

\* the call before this one was the same operation with the same arguments,
\* and it returned
Repeats(op, video_id, post_id, url) ==
    /\ db_call.op = op /\ db_call.video_id = video_id
    /\ db_call.post_id = post_id /\ db_call.url = url
    /\ ~db_call.raised

DbAddVideo ==
    /\ \E v \in VideoIds :
         LET r == add_video(videos, Candidate(v)) IN
         /\ videos' = r.table
         /\ db_call' = DbCall("add_video", v, 0, "none", r.raised,
                              Repeats("add_video", v, 0, "none"))
    /\ UNCHANGED <<feed, posts, threads, checkLog, mode, queue, qi, pc, locals,
                   trace, outcome, runs, http_log, config, checked, moderation,
                   fixed, transcription, ingest, rvars>>

DbAddPost ==
    /\ Len(posts) < MaxPosts
    /\ \E id \in 1..Len(videos) :
         /\ posts' = add_post(posts, id, GoodPost)
         /\ db_call' = DbCall("add_post", id, 0, "none", FALSE, FALSE)
    /\ UNCHANGED <<feed, videos, threads, checkLog, mode, queue, qi, pc, locals,
                   trace, outcome, runs, http_log, config, checked, moderation,
                   fixed, transcription, ingest, rvars>>

DbMarkPostAsPublished ==
    /\ \E post_id \in 1..MaxPosts, published_url \in PublishedUrls :
         /\ posts' = mark_post_as_published(posts, post_id, published_url)
         /\ db_call' = DbCall("mark_post_as_published", 0, post_id,
                              published_url, FALSE,
                              Repeats("mark_post_as_published", 0, post_id,
                                      published_url))
    /\ UNCHANGED <<feed, videos, threads, checkLog, mode, queue, qi, pc, locals,
                   trace, outcome, runs, http_log, config, checked, moderation,
                   fixed, transcription, ingest, rvars>>

(***************************************************************************)
(* Specifications.                                                         *)
(***************************************************************************)
InitPipeline ==
    /\ feed = <<>>
    /\ videos = <<>>
    /\ posts = <<>>
    /\ threads = [v \in VideoIds |-> 0]
    /\ checkLog = <<>>
    /\ mode = "idle"
    /\ queue = <<>>
    /\ qi = 0
    /\ pc = "idle"
    /\ locals = NoLocals
    /\ trace = <<>>
    /\ outcome = "none"
    /\ runs = 0

InitRetry ==
    /\ wrapper = "none"
    /\ max_retries = 0
    /\ attempt = 0
    /\ calls = <<>>
    /\ sleeps = <<>>
    /\ last_error = "none"
    /\ retry_result = NoResult
    /\ created = 0

\* no publish_post call yet; a Moderator with the default configuration
InitFunctions ==
    /\ http_log = <<>>
    /\ config = platform_limits
    /\ checked = NoCheck
    /\ moderation = <<>>
    /\ fixed = NoFix
    /\ transcription = NoTranscription
    /\ ingest = [p \in Procs |-> NotStarted]
    /\ db_call = NoDbCall

Init == InitPipeline /\ InitRetry /\ InitFunctions

\* the orchestrator: the commands of main.py, the runs of process_video
Next ==
    \/ FeedPublish
    \/ CheckNewVideos
    \/ ProcessPendingVideos
    \/ ShouldContinue
    \/ ProcessVideoCommand
    \/ FinishCommand
    \/ Crash
    \/ ExtractVideoId
    \/ Transcribe
    \/ ModerateTranscript
    \/ GeneratePost
    \/ ModeratePost
    \/ ConfirmPublish
    \/ Publish
    \/ AddPost
    \/ MarkPostAsPublished

Spec == Init /\ [][Next]_vars

\* ingestion and the store: the feed, check_new_videos, the status updates
NextStore ==
    \/ FeedPublish
    \/ FeedAge
    \/ CheckNewVideos
    \/ UpdateVideoStatus
    \/ UpdateVideoTranscript

SpecStore == Init /\ [][NextStore]_vars

\* the store called directly
NextDb ==
    \/ DbAddVideo
    \/ DbAddPost
    \/ DbMarkPostAsPublished

SpecDb == Init /\ [][NextDb]_vars

\* the retry wrappers
NextRetry ==
    \/ RetryCall
    \/ RetryIteration
    \/ RetryAfterLoop
    \/ RetryReturn

SpecRetry == Init /\ [][NextRetry]_vars

\* the publishing client called directly
NextClient ==
    \/ PublishPostCall

SpecClient == Init /\ [][NextClient]_vars

\* the guardrails called directly
NextModerator ==
    \/ NewModerator
    \/ CheckTranscript
    \/ CheckPost

SpecModerator == Init /\ [][NextModerator]_vars

\* the repair of posts called directly
NextAutoFix ==
    \/ NewModeratorShortLimit
    \/ AutoFix

SpecAutoFix == Init /\ [][NextAutoFix]_vars

\* the transcriber called directly
NextTranscriber ==
    \/ NewTranscriber
    \/ TranscribeCall

SpecTranscriber == Init /\ [][NextTranscriber]_vars

\* concurrent ingestion: the channel publishes, the runs interleave
NextIngest ==
    \/ FeedPublish
    \/ \E p \in Procs : IngestFetch(p)
    \/ \E p \in Procs : IngestCheck(p)
    \/ \E p \in Procs : IngestAdd(p)

SpecIngest == Init /\ [][NextIngest]_vars

(***************************************************************************)
(* Properties of a process_video run.                                      *)
(***************************************************************************)
InRun == mode # "idle"

CalledAt(k, op) == k \in 1..Len(trace) /\ trace[k].op = op

\* row of the store for the Item of the current run, 0 when there is none
RunRow == get_video_by_video_id(videos, locals.video_id)

\* the status the last completed stage of the run stands for
CompletedStageStatus ==
    IF outcome = "published" THEN "PUBLISHED"
    ELSE IF \E k \in 1..Len(trace) : CalledAt(k, "confirm_publish") /\ trace[k].ok
    THEN "APPROVED"
    ELSE IF \E k \in 1..Len(trace) : CalledAt(k, "generate_post") /\ trace[k].ok
    THEN "POSTS_GENERATED"
    ELSE IF \E k \in 1..Len(trace) : CalledAt(k, "transcribe") /\ trace[k].ok
    THEN "TRANSCRIBED"
    ELSE "NEW"

\* C1: publish_post is invoked only after check_transcript and check_post both
\* returned is_safe = true earlier in the run, and an unsafe check_post result
\* stops the run (nothing is called after it).
C1_PublishOnlyAfterBothGuardrails ==
    /\ \A k \in 1..Len(trace) :
         CalledAt(k, "publish_post") =>
           /\ \E i \in 1..(k - 1) : CalledAt(i, "check_transcript") /\ trace[i].ok
           /\ \E j \in 1..(k - 1) : CalledAt(j, "check_post") /\ trace[j].ok
    /\ \A j \in 1..Len(trace) :
         (CalledAt(j, "check_post") /\ ~trace[j].ok) =>
           (j = Len(trace) /\ pc = "returned")

\* C2: no Item is published more than once, whatever commands are run: no
\* Item that process_pending_videos took from the store has two posts on the
\* platform.
C2_PublishedAtMostOnce ==
    \A i \in 1..Len(queue) : threads[queue[i].video_id] <= 1

\* C3: at every point of a run of a stored Item that has not been rejected or
\* failed, the stored status is the one of the last stage the run completed.
C3_StatusPersistedAfterEveryStage ==
    (InRun /\ RunRow # 0 /\ outcome \in {"running", "published"}) =>
       videos[RunRow].processing_status = CompletedStageStatus

\* C4: when process_video has returned after an exception of a stage, the
\* stored status of the Item is FAILED.
C4_ExceptionMarksItemFailed ==
    (InRun /\ pc = "returned" /\ outcome = "exception" /\ RunRow # 0) =>
       videos[RunRow].processing_status = "FAILED"

\* C6: publish_post is called only right after _confirm_publish returned an
\* approval for that post, and a refusal ends the run with no publish call.
C6_PublishOnlyAfterApproval ==
    /\ \A k \in 1..Len(trace) :
         CalledAt(k, "publish_post") =>
           /\ CalledAt(k - 1, "confirm_publish")
           /\ trace[k - 1].ok
           /\ trace[k - 1].text = trace[k].text
    /\ \A k \in 1..Len(trace) :
         (CalledAt(k, "confirm_publish") /\ ~trace[k].ok) =>
           (k = Len(trace) /\ pc = "returned" /\ outcome = "cancelled")

\* a run in which the operator approved and publish_post was called
C6_Witness ==
    /\ \E k \in 1..Len(trace) : CalledAt(k, "publish_post")
    /\ outcome = "published"

\* C7: after an unsafe check_transcript result the run has stopped: generation,
\* post moderation, confirmation and publish are never called.
C7_UnsafeTranscriptStopsRun ==
    \A k \in 1..Len(trace) :
      (CalledAt(k, "check_transcript") /\ ~trace[k].ok) =>
        /\ k = Len(trace)
        /\ pc = "returned"
        /\ \A j \in 1..Len(trace) :
             trace[j].op \notin {"generate_post", "check_post", "confirm_publish",
                                 "publish_post"}

\* a run that returned on an unsafe transcript
C7_Witness ==
    /\ outcome = "transcript_rejected"
    /\ \E k \in 1..Len(trace) : CalledAt(k, "check_transcript") /\ ~trace[k].ok

StageOrder ==
    <<"transcribe", "check_transcript", "generate_post", "check_post",
      "confirm_publish", "publish_post">>

\* C8: the calls of a run are a prefix of Transcribe, Moderate(transcript),
\* Generate, Moderate(post), Approval, Publish (in order, none skipped, none
\* twice), each stage works on the output of the one before, and publish_post
\* gets exactly the text check_post evaluated.
C8_StagesInOrder ==
    /\ Len(trace) <= Len(StageOrder)
    /\ \A k \in 1..Len(trace) : trace[k].op = StageOrder[k]
    /\ \A k \in 2..Len(trace) :
         /\ k \in {2, 3} => trace[k].text = trace[1].text
         /\ k \in {5, 6} => trace[k].text = trace[4].text
    /\ \A k \in 1..Len(trace) :
         (k < Len(trace) /\ trace[k].op \in {"transcribe", "generate_post"})
            => trace[k].ok
    /\ (Len(trace) >= 4) => trace[4].text = locals.post

\* a complete run: six calls, the post published
C8_Witness == Len(trace) = Len(StageOrder) /\ outcome = "published"

(***************************************************************************)
(* Properties of ingestion.                                                *)
(***************************************************************************)
IsCheckStep == Len(checkLog') = Len(checkLog) + 1

\* C5: of two consecutive check_new_videos calls that fetched the same feed,
\* the second adds no Item; and a check never changes a record already stored.
C5_IdempotentIngestion ==
    /\ [](\A i \in 1..(Len(checkLog) - 1) :
            (/\ checkLog[i].fetched
             /\ checkLog[i + 1].fetched
             /\ checkLog[i + 1].seen = checkLog[i].seen)
               => checkLog[i + 1].added = 0)
    /\ [][IsCheckStep =>
            /\ Len(videos') >= Len(videos)
            /\ \A i \in 1..Len(videos) : videos'[i] = videos[i]]_vars

\* two checks of the same non-empty feed, the first one added Items, and a
\* stored Item has left the status NEW before the second check
C5_Witness ==
    /\ Len(checkLog) = 2
    /\ checkLog[1].fetched /\ checkLog[2].fetched
    /\ checkLog[1].seen = checkLog[2].seen
    /\ checkLog[1].added > 0
    /\ \E i \in 1..Len(videos) :
         /\ videos[i].processing_status # "NEW"
         /\ \E j \in 1..Len(feed) :
              feed[j].video_id = videos[i].video_id /\ feed[j].recent

(***************************************************************************)
(* Properties of the retry wrappers.                                       *)
(***************************************************************************)
\* retryable per the retry policy: network timeouts and transient errors
RetryableErrors ==
    {"Request timeout", "Network error", "APIError", "ConnectionError", "Timeout"}

\* terminal per the retry policy: authentication failures, rate-limit signals
TerminalErrors ==
    {"Authentication failed", "Rate limit exceeded", "AuthenticationError",
     "RateLimitError"}

AllRetryable(k) == \A i \in 1..k : calls[i] \in RetryableErrors

\* C9: every wrapper calls the operation at most max_retries times; after
\* k-1 retryable failures (k <= max_retries) it makes the k-th call, and when
\* that call succeeds it returns the success after exactly k calls.
C9_RetryUntilSuccess ==
    (wrapper # "none") =>
       /\ Len(calls) <= max_retries
       /\ (AllRetryable(Len(calls)) /\ Len(calls) < max_retries)
             => retry_result = NoResult
       /\ \A k \in 1..Len(calls) :
            (AllRetryable(k - 1) /\ calls[k] = "ok") =>
               (Len(calls) = k /\ retry_result = Return("ok"))

\* C10: in publish_post_with_retry and generate_post_with_retry a call that
\* fails with an authentication or rate-limit error is the last call: the
\* error is raised at once, with no sleep after it.
C10_AuthAndRateLimitTerminal ==
    (wrapper \in {"publish_post_with_retry", "generate_post_with_retry"}) =>
       \A k \in 1..Len(calls) :
         calls[k] \in TerminalErrors =>
           /\ Len(calls) = k
           /\ retry_result = Raise(calls[k])
           /\ Len(sleeps) < k

(***************************************************************************)
(* The retry policy in the pipeline and in the wrappers.                   *)
(***************************************************************************)
CallsOf(op) == Cardinality({k \in 1..Len(trace) : trace[k].op = op})

\* C11: a run of process_video fails on a transient (retryable) error of
\* transcribe, generate_post or publish_post only after the failed operation
\* has been attempted again: it has been called more than once in the run.
C11_TransientFailureRetriedInRun ==
    (InRun /\ pc = "returned" /\ outcome = "exception"
       /\ locals.error \in RetryableErrors /\ trace # <<>>) =>
       CallsOf(trace[Len(trace)].op) > 1

\* C12: every wrapper has slept once after each failed attempt that was
\* followed by another attempt, 2^(k-1) time units after attempt k.
C12_BackoffDoubles ==
    (wrapper # "none") =>
       /\ Len(sleeps) = attempt
       /\ \A k \in 1..Len(sleeps) : sleeps[k] = 2 ^ (k - 1)

\* the wrapper has made max_retries >= 1 calls and all failed with retryable errors
Exhausted ==
    /\ wrapper # "none" /\ retry_result # NoResult
    /\ max_retries >= 1 /\ Len(calls) = max_retries
    /\ AllRetryable(Len(calls))

\* C13: when all max_retries attempts failed with retryable errors, the
\* wrapper raises the error of the last attempt itself; it neither returns a
\* result nor raises another error.
C13_LastErrorSurfaced ==
    Exhausted => retry_result = Raise(calls[Len(calls)])

C13_Witness ==
    /\ Exhausted /\ wrapper = "publish_post_with_retry" /\ max_retries = 2
    /\ calls = <<"Network error", "Request timeout">>
    /\ retry_result = Raise("Request timeout")

\* C16: in publish_post_with_retry a call before the last that received an
\* HTTP 500 response (publish_post gives a failure result) is followed by
\* another call: the wrapper does not leave with the failure.
C16_ServerErrorRetried ==
    (wrapper = "publish_post_with_retry") =>
       \A k \in 1..Len(calls) :
         (calls[k] = PublishCallOutcome(GoodPost, "500") /\ k < max_retries) =>
            (Len(calls) > k \/ retry_result = NoResult)

(***************************************************************************)
(* Properties of ThreadsClient.publish_post.                               *)
(***************************************************************************)
\* C14: a publish_post call with empty or whitespace-only content, or with
\* content longer than the platform maximum, raises a validation error and
\* makes no HTTP request.
C14_ValidationBeforeRequest ==
    \A i \in 1..Len(http_log) :
      (http_log[i].content.words = 0 \/ http_log[i].content.len > MAX_POST_LENGTH) =>
         /\ http_log[i].requests = 0
         /\ http_log[i].ret = Raised("ValueError")

C14_Witness ==
    \E i \in 1..Len(http_log), j \in 1..Len(http_log) :
      /\ http_log[i].content = BlankPost /\ http_log[i].http = "200"
      /\ http_log[i].requests = 0 /\ http_log[i].ret.raised
      /\ http_log[j].content = LongPost /\ http_log[j].requests = 0

Is2xx(http) == http \in {"200", "201"}
IsTransportFailure(http) == http \in {"Timeout", "ConnectionError"}
IsAuthOrRateLimit(http) == http \in {"401", "429"}

\* C15: of the publish_post calls that sent a request, every 2xx response
\* gives a success result, every transport failure is raised, and every other
\* response except 401 and 429 gives a failure result that is returned.
C15_ResponseMapping ==
    \A i \in 1..Len(http_log) :
      LET c == http_log[i] IN
      (c.requests = 1) =>
         /\ Is2xx(c.http) => c.ret = PublishResult(TRUE)
         /\ IsTransportFailure(c.http) => c.ret.raised
         /\ (~Is2xx(c.http) /\ ~IsTransportFailure(c.http)
               /\ ~IsAuthOrRateLimit(c.http)) => c.ret = PublishResult(FALSE)

(***************************************************************************)
(* Properties of the guardrails.                                           *)
(***************************************************************************)
HasViolation(m, type) == \E k \in 1..Len(m.violations) : m.violations[k] = type

\* C17: in every ModerationResult of check_transcript and check_post,
\* is_safe holds iff there is no violation, and safety_level is SAFE for no
\* violation, WARNING for 1 or 2, UNSAFE for 3 or more.
C17_ModerationResultInvariant ==
    (moderation # <<>>) =>
       LET m == moderation[1]
           n == Len(m.violations) IN
       /\ m.is_safe <=> (n = 0)
       /\ (m.safety_level = "SAFE") <=> (n = 0)
       /\ (m.safety_level = "WARNING") <=> (n \in 1..2)
       /\ (m.safety_level = "UNSAFE") <=> (n >= 3)

C17_Witness ==
    /\ checked.op = "check_transcript" /\ moderation # <<>>
    /\ Len(moderation[1].violations) = 2
    /\ moderation[1].safety_level = "WARNING" /\ ~moderation[1].is_safe

\* C18: check_post reports excessive_emojis for a post with exactly
\* max_emojis emojis, and does not report it for a post with max_emojis - 1.
C18_EmojiBoundary ==
    (checked.op = "check_post") =>
       LET p == checked.text[1] IN
       /\ (p.emojis = config.max_emojis) =>
             HasViolation(moderation[1], "excessive_emojis")
       /\ (p.emojis = config.max_emojis - 1) =>
             ~HasViolation(moderation[1], "excessive_emojis")

\* C19: check_post does not report excessive_hashtags for a post with exactly
\* max_hashtags hashtags, and reports it for a post with max_hashtags + 1.
C19_HashtagBoundary ==
    (checked.op = "check_post") =>
       LET p == checked.text[1] IN
       /\ (p.hashtags = config.max_hashtags) =>
             ~HasViolation(moderation[1], "excessive_hashtags")
       /\ (p.hashtags = config.max_hashtags + 1) =>
             HasViolation(moderation[1], "excessive_hashtags")

C19_Witness ==
    /\ checked.op = "check_post" /\ config.max_hashtags = 5
    /\ checked.text[1].hashtags = 5
    /\ ~HasViolation(moderation[1], "excessive_hashtags")

Rank(level) == IF level = "SAFE" THEN 0 ELSE IF level = "WARNING" THEN 1 ELSE 2

\* the outcomes of the checks other than the spam check
OtherOutcomes(m) == SelectSeq(m.violations, LAMBDA v : v # "spam_detected")

\* C20: of two check_post calls of the same moderator on posts whose other
\* checks have the same outcomes, the one on the post with more spam-pattern
\* matches does not return a lower safety_level (SAFE < WARNING < UNSAFE).
C20_SpamMonotone ==
    [][(/\ checked.op = "check_post" /\ checked'.op = "check_post"
        /\ config' = config
        /\ checked'.text[1].spam > checked.text[1].spam
        /\ OtherOutcomes(moderation'[1]) = OtherOutcomes(moderation[1]))
       => Rank(moderation'[1].safety_level) >= Rank(moderation[1].safety_level)]_vars

C20_Witness ==
    /\ checked.op = "check_post" /\ checked.text[1].spam >= 2
    /\ HasViolation(moderation[1], "spam_detected")
    /\ moderation[1].safety_level = "WARNING"

\* C21: check_transcript reports a violation for a transcript with fewer
\* than min_word_count or more than max_word_count words, and no word-count
\* violation for a transcript within the two bounds.
C21_WordCountBothEnds ==
    (checked.op = "check_transcript") =>
       LET t == checked.text[1]
           m == moderation[1] IN
       /\ (calculate_word_count(t) < min_word_count) => HasViolation(m, "too_short")
       /\ (calculate_word_count(t) > max_word_count) => ~m.is_safe
       /\ (calculate_word_count(t) \in min_word_count..max_word_count
             /\ t.len >= min_length) => ~HasViolation(m, "too_short")

EndsWithEllipsis(text) ==
    Len(text) >= 3 /\ SubSeq(text, Len(text) - 2, Len(text)) = Ellipsis

OverLimit == fixed.done /\ Len(fixed.post) > config.max_length

\* the part of the post that is kept has no doubled space and no leading space
KeptPartIsTidy ==
    LET kept == SubSeq(fixed.post, 1, config.max_length - 3) IN
    auto_fix_whitespace(kept \o <<"a">>) = kept \o <<"a">>

C23_FallbackOnlyWhenNotAvailable ==
    (transcription.done /\ transcription.use_youtube_captions) =>
       LET c == transcription.captions
           r == transcription.result
           fallback == /\ c.raised /\ c.error \in NotAvailableErrors
                       /\ transcription.enable_whisper_fallback IN
       /\ r.captions_calls = 1
       /\ fallback => (r.whisper_calls = 1 /\ ~r.ret.raised)
       /\ ~fallback => (r.whisper_calls = 0 /\ r.ret = c)

(***************************************************************************)
(* Properties of the store.                                                *)
(***************************************************************************)
TerminalStatuses == {"PUBLISHED", "REJECTED", "FAILED"}

\* the edges of the Item state machine
StatusEdges ==
    {<<"NEW", "TRANSCRIBED">>, <<"TRANSCRIBED", "POSTS_GENERATED">>,
     <<"POSTS_GENERATED", "APPROVED">>, <<"APPROVED", "PUBLISHED">>}
    \cup {<<s, t>> : s \in ProcessingStatus \ TerminalStatuses,
                     t \in {"REJECTED", "FAILED"}}

\* C24: no step of the store changes the processing_status of an Item that
\* is PUBLISHED, REJECTED or FAILED, and every change of a status follows an
\* edge NEW -> TRANSCRIBED -> POSTS_GENERATED -> APPROVED -> PUBLISHED or
\* leads into REJECTED or FAILED.
C24_TerminalStatusesStay ==
    [][\A i \in 1..Len(videos) :
         (videos'[i].processing_status # videos[i].processing_status) =>
            /\ videos[i].processing_status \notin TerminalStatuses
            /\ <<videos[i].processing_status, videos'[i].processing_status>>
                  \in StatusEdges]_vars

AllRunsFinished == \A p \in Procs : ingest[p].pc \in {"done", "failed"}

\* C25: in every interleaving of the check_new_videos runs the store never
\* holds two Items with the same video_id, and when all runs have finished
\* every candidate a run has observed is stored (hence exactly once).
C25_UniqueUnderConcurrency ==
    /\ \A i \in 1..Len(videos), j \in 1..Len(videos) :
         (videos[i].video_id = videos[j].video_id) => i = j
    /\ AllRunsFinished =>
         \A p \in Procs : \A k \in 1..Len(ingest[p].found) :
            get_video_by_video_id(videos, ingest[p].found[k].video_id) # 0

\* two runs observed the same two candidates and raced for the first one
C25_Witness ==
    /\ AllRunsFinished
    /\ ingest[1].pc = "failed" /\ ingest[2].pc = "done"
    /\ ingest[1].found = ingest[2].found /\ Len(ingest[1].found) = 2
    /\ ingest[1].i = 1
    /\ Len(videos) = 2

(***************************************************************************)
(* Properties of the runs of process_pending_videos.                       *)
(***************************************************************************)
AwaitingApproval == InRun /\ outcome = "running" /\ pc = "confirm_publish"

\* a step of the pipeline that starts the run of another Item
StartsAnotherRun ==
    (ProcessPendingVideos \/ ShouldContinue \/ ProcessVideoCommand)
       /\ runs' = runs + 1

\* C26: while the run of one queued Item is waiting for the approval
\* decision and another Item is still queued, the pipeline can start the run
\* of another Item.
C26_ApprovalDoesNotBlock ==
    (AwaitingApproval /\ mode = "pending" /\ qi < Len(queue) /\ runs < MaxRuns)
       => ENABLED StartsAnotherRun

\* C28: one call of publish_post_with_retry creates at most one post on the
\* platform, also when a request the platform accepted ends in a timeout at
\* the client and is retried.
C28_AtMostOnePostPerCall ==
    (wrapper = "publish_post_with_retry") => created <= 1

\* C29: with the default limits, every text that check_post finds safe is
\* accepted by validate_post_content.
C29_SafePostPassesPreflight ==
    (checked.op = "check_post" /\ config = platform_limits
        /\ moderation[1].is_safe)
       => validate_post_content(checked.text[1]) = <<>>

\* C27: a call of add_video or mark_post_as_published that repeats the call
\* before it, with the same arguments, succeeds and leaves the store as the
\* first call left it.
C27_StoreOpsIdempotent ==
    db_call.repeat =>
        /\ ~db_call.raised
        /\ videos = db_call.videos_before
        /\ posts = db_call.posts_before

\* the run of a queued Item has ended with an exception
FailedRun == mode = "pending" /\ pc = "returned" /\ outcome = "exception"

\* the operator answers "continue" and the run of the next queued Item begins
ContinueWithNext ==
    /\ ShouldContinue
    /\ mode' = "pending" /\ queue' = queue /\ qi' = qi + 1
    /\ pc' = "extract_video_id" /\ outcome' = "running"
    /\ locals'.video_url = queue[qi + 1].url

\* C30: in process_pending_videos an exception raised in the run of one
\* queued Item ends that run only: the loop and its queue are kept, the
\* operator can continue with the next queued Item, and neither the failing
\* step nor the step after the failed run changes a stored record.
C30_FailureIsolated ==
    /\ []((FailedRun /\ qi < Len(queue) /\ runs < MaxRuns)
            => ENABLED ContinueWithNext)
    /\ [][/\ ((mode = "pending" /\ outcome = "running"
                  /\ outcome' = "exception")
                => (/\ mode' = "pending" /\ queue' = queue /\ qi' = qi
                    /\ pc' = "returned"
                    /\ videos' = videos /\ posts' = posts))
           /\ (FailedRun => (videos' = videos /\ posts' = posts))]_vars

\* the run of the first of two queued Items has failed, the store still holds
\* both Items as NEW, and the run of the second can begin
C30_Witness ==
    /\ FailedRun /\ qi = 1 /\ Len(queue) = 2
    /\ locals.error # "none"
    /\ \A i \in 1..Len(videos) : videos[i].processing_status = "NEW"
    /\ ENABLED ContinueWithNext

====
